---- MODULE Spec2Model ----
(***************************************************************************)
(* State-machine model of the brokerage engine of src/Stock_Exchange.py:   *)
(* BrokerageSystem with its MarketDataService, PortfolioService,           *)
(* OrderService (market and limit processors) and TransactionService.      *)
(* Every call is one atomic step (the source has no threads and no locks). *)
(*                                                                         *)
(* Decimal values that the program only adds, subtracts and multiplies     *)
(* (prices, balances, amounts) are whole numbers.  Position.avg_price is   *)
(* the one value produced by a Decimal division; it is kept in fixed point *)
(* with DecimalPlaces digits after the point, and the division rounds half *)
(* to even as the decimal module's default context does.                   *)
(***************************************************************************)
EXTENDS Integers, Sequences, FiniteSets

\* ------------------------------------------------------------------ bounds
\* Orders constructed in one run, and transactions logged in one run.
MaxOrders == 2
MaxTransactions == 1
\* Digits kept after the decimal point by a Decimal division.
DecimalPlaces == 1

\* ------------------------------------------------------------------ values
Symbols == {"AAPL"}
AccountIds == {"acc1"}
\* One account id and one symbol that were never registered.
UnknownAccount == "nobody"
UnknownSymbol == "NOPE"
OrderTypes == {"MARKET", "LIMIT"}
OrderSides == {"BUY", "SELL"}
PENDING == "PENDING"
FILLED == "FILLED"
PARTIALLY_FILLED == "PARTIALLY_FILLED"
CANCELLED == "CANCELLED"
REJECTED == "REJECTED"
\* The values a caller passes: no method of the source restricts them.
Prices == {-1, 1, 2}
Quantities == {-1, 0, 1, 2}
Amounts == {-1, 0, 1}
InitialBalances == {0, 3}
\* Optional[Decimal]: None is the empty tuple, a price p the tuple <<p>>.
None == << >>
LimitPrices == {None, <<-1>>, <<0>>, <<1>>, <<2>>}

RECURSIVE Pow10(_)
Pow10(n) == IF n = 0 THEN 1 ELSE 10 * Pow10(n - 1)
Scale == Pow10(DecimalPlaces)
\* A whole Decimal as a fixed-point number.
Dec(n) == n * Scale
\* Mutant: the quotient is cut off, not rounded.
DecimalDivide_truncated(n, d) == n \div d

\* Decimal division n / d for d > 0, rounded half to even.
DecimalDivide(n, d) ==
    LET q == n \div d
        r == n % d
    IN IF 2 * r < d THEN q
       ELSE IF 2 * r > d THEN q + 1
       ELSE IF q % 2 = 0 THEN q ELSE q + 1

VARIABLES current_price, balance, positions, order_objects, orders,
          transactions, last, threads, applied

vars == <<current_price, balance, positions, order_objects, orders,
          transactions, last, threads, applied>>

\* The callers of the concurrent specification. The code has no lock, so a
\* call of one caller can be interleaved with a call of another between any
\* two method calls on the shared objects.
Threads == {"t1", "t2"}

\* A caller outside every call.
Idle == [pc |-> "idle", order |-> 0, current_price |-> 0]

\* The record of the latest call: its name, the order it returned or acted on
\* (0: none), whether it succeeded, and the balances and positions it
\* started from.
Call(op, order, ok) ==
    [op |-> op, order |-> order, ok |-> ok,
     balance |-> balance, positions |-> positions]

Init ==
    /\ current_price \in [Symbols -> Prices]
    /\ balance \in [AccountIds -> InitialBalances]
    /\ positions = [a \in AccountIds |-> << >>]
    /\ order_objects = << >>
    /\ orders = {}
    /\ transactions = << >>
    /\ last = Call("init", 0, TRUE)
    /\ threads = [t \in Threads |-> Idle]
    /\ applied = << >>

\* ---------------------------------------------------------------- Account
\* Mutant: the deposit accepts any amount.
Account_deposit_ok_any_amount(amount) == TRUE

Account_deposit_ok(amount) == amount > 0
Account_deposit(bal, amount) ==
    IF Account_deposit_ok(amount) THEN bal + amount ELSE bal

\* Mutant: the withdrawal forgets to compare the amount with the balance.
Account_withdraw_ok_no_balance_check(bal, amount) == amount > 0

Account_withdraw_ok(bal, amount) == amount > 0 /\ bal >= amount
Account_withdraw(bal, amount) ==
    IF Account_withdraw_ok(bal, amount) THEN bal - amount ELSE bal

has_sufficient_balance(bal, amount) == bal >= amount

\* --------------------------------------------------------------- Position
NewPosition(quantity, price) == [quantity |-> quantity, avg_price |-> Dec(price)]

Position_update_position(pos, quantity_change, price) ==
    IF pos.quantity + quantity_change = 0
    THEN [quantity |-> 0, avg_price |-> 0]
    ELSE LET total_cost == (pos.quantity * pos.avg_price)
                           + (quantity_change * Dec(price))
             quantity == pos.quantity + quantity_change
         IN [quantity |-> quantity,
             avg_price |-> IF quantity > 0
                           THEN DecimalDivide(total_cost, quantity)
                           ELSE 0]

\* -------------------------------------------------------------- Portfolio
\* A portfolio is the dict symbol -> Position: a function on the symbols held.
Portfolio_add_position(portfolio, symbol, quantity, price) ==
    [s \in DOMAIN portfolio \cup {symbol} |->
        IF s = symbol
        THEN IF symbol \in DOMAIN portfolio
             THEN Position_update_position(portfolio[symbol], quantity, price)
             ELSE NewPosition(quantity, price)
        ELSE portfolio[s]]

\* Mutant: any position in the symbol counts as enough shares.
has_sufficient_shares_any_quantity(portfolio, symbol, quantity) ==
    symbol \in DOMAIN portfolio

has_sufficient_shares(portfolio, symbol, quantity) ==
    symbol \in DOMAIN portfolio /\ portfolio[symbol].quantity >= quantity

\* ------------------------------------------------------------------ Order
NewOrder(account, symbol, order_type, side, quantity, price) ==
    [account |-> account, symbol |-> symbol, order_type |-> order_type,
     side |-> side, quantity |-> quantity, price |-> price,
     filled_quantity |-> 0, status |-> PENDING]

update_status(order, status) == [order EXCEPT !.status = status]

\* Mutant: the fill counts one share too many.
fill_order_off_by_one(order, quantity) ==
    LET filled == order.filled_quantity + quantity + 1
    IN [order EXCEPT !.filled_quantity = filled,
                     !.status = IF filled >= order.quantity
                                THEN FILLED ELSE PARTIALLY_FILLED]

\* Mutant: the comparison that decides FILLED is strict.
fill_order_strict(order, quantity) ==
    LET filled == order.filled_quantity + quantity
    IN [order EXCEPT !.filled_quantity = filled,
                     !.status = IF filled > order.quantity
                                THEN FILLED ELSE PARTIALLY_FILLED]

\* Mutant: the quantity is added to filled_quantity twice.
fill_order_twice(order, quantity) ==
    LET filled == order.filled_quantity + quantity + quantity
    IN [order EXCEPT !.filled_quantity = filled,
                     !.status = IF filled >= order.quantity
                                THEN FILLED ELSE PARTIALLY_FILLED]

fill_order(order, quantity) ==
    LET filled == order.filled_quantity + quantity
    IN [order EXCEPT !.filled_quantity = filled,
                     !.status = IF filled >= order.quantity
                                THEN FILLED ELSE PARTIALLY_FILLED]

\* ------------------------------------------------------------- processors
\* A processor's outcome: what it returned, the order and the balance after.
Outcome(ok, order, bal) == [ok |-> ok, order |-> order, balance |-> bal]

\* Mutant: the market processor fills one share less than ordered.
MarketOrderProcessor_process_order_partial(order, bal, price) ==
    LET total_cost == price * order.quantity
    IN IF order.side = "BUY"
       THEN IF has_sufficient_balance(bal, total_cost)
            THEN Outcome(TRUE, fill_order(order, order.quantity - 1),
                         Account_withdraw(bal, total_cost))
            ELSE Outcome(FALSE, order, bal)
       ELSE Outcome(TRUE, order, bal)

MarketOrderProcessor_process_order(order, bal, price) ==
    LET total_cost == price * order.quantity
    IN IF order.side = "BUY"
       THEN IF has_sufficient_balance(bal, total_cost)
            THEN Outcome(TRUE, fill_order(order, order.quantity),
                         Account_withdraw(bal, total_cost))
            ELSE Outcome(FALSE, order, bal)
       ELSE Outcome(TRUE, order, bal)

\* Mutant: a limit SELL fills without crediting the proceeds.
LimitOrderProcessor_process_order_no_deposit(order, bal, price) ==
    IF order.price = None
    THEN Outcome(FALSE, order, bal)
    ELSE LET limit == order.price[1]
         IN IF order.side = "BUY" /\ price <= limit
            THEN LET total_cost == limit * order.quantity
                 IN IF has_sufficient_balance(bal, total_cost)
                    THEN Outcome(TRUE, fill_order(order, order.quantity),
                                 Account_withdraw(bal, total_cost))
                    ELSE Outcome(FALSE, order, bal)
            ELSE IF order.side = "SELL" /\ price >= limit
            THEN Outcome(TRUE, fill_order(order, order.quantity), bal)
            ELSE Outcome(FALSE, order, bal)

LimitOrderProcessor_process_order(order, bal, price) ==
    IF order.price = None
    THEN Outcome(FALSE, order, bal)
    ELSE LET limit == order.price[1]
         IN IF order.side = "BUY" /\ price <= limit
            THEN LET total_cost == limit * order.quantity
                 IN IF has_sufficient_balance(bal, total_cost)
                    THEN Outcome(TRUE, fill_order(order, order.quantity),
                                 Account_withdraw(bal, total_cost))
                    ELSE Outcome(FALSE, order, bal)
            ELSE IF order.side = "SELL" /\ price >= limit
            THEN Outcome(TRUE, fill_order(order, order.quantity),
                         Account_deposit(bal, limit * order.quantity))
            ELSE Outcome(FALSE, order, bal)

process_order(order, bal, price) ==
    IF order.order_type = "MARKET"
    THEN MarketOrderProcessor_process_order(order, bal, price)
    ELSE LimitOrderProcessor_process_order(order, bal, price)

\* ----------------------------------------------------------- OrderService
\* Mutant: validation skips the share check of a SELL.
validate_order_no_share_check(order, portfolio) ==
    IF order.quantity <= 0 THEN FALSE
    ELSE IF order.order_type = "LIMIT" /\ order.price = None THEN FALSE
    ELSE TRUE

\* Mutant: validation skips the quantity check.
validate_order_no_quantity_check(order, portfolio) ==
    IF order.order_type = "LIMIT" /\ order.price = None THEN FALSE
    ELSE IF order.side = "SELL"
    THEN has_sufficient_shares(portfolio, order.symbol, order.quantity)
    ELSE TRUE

validate_order(order, portfolio) ==
    IF order.quantity <= 0 THEN FALSE
    ELSE IF order.order_type = "LIMIT" /\ order.price = None THEN FALSE
    ELSE IF order.side = "SELL"
    THEN has_sufficient_shares(portfolio, order.symbol, order.quantity)
    ELSE TRUE

\* Mutant: every fill is booked at the stock's current price.
ExecutionPrice_current(o, price) == price

\* place_order's execution_price: the limit price of a LIMIT order, the
\* stock's current price otherwise.
ExecutionPrice(o, price) ==
    IF o.order_type = "LIMIT" THEN o.price[1] ELSE price

\* Mutant: a SELL fill is booked with the sign of a BUY.
UpdatePortfolio_sell_adds(done, portfolio, price) ==
    IF done.ok /\ done.order.status = FILLED
    THEN Portfolio_add_position(portfolio, done.order.symbol,
                                done.order.quantity,
                                ExecutionPrice(done.order, price))
    ELSE portfolio

\* The portfolio after place_order's "Update portfolio" block.
UpdatePortfolio(done, portfolio, price) ==
    IF done.ok /\ done.order.status = FILLED
    THEN LET order == done.order
             quantity_change == IF order.side = "BUY"
                                THEN order.quantity ELSE 0 - order.quantity
             execution_price == ExecutionPrice(order, price)
         IN Portfolio_add_position(portfolio, order.symbol,
                                   quantity_change, execution_price)
    ELSE portfolio

\* OrderService.place_order for a known account: the Order it returns,
\* whether it was stored in self.orders, and the balance and portfolio after.
OrderService_place_order(account, symbol, order_type, side, quantity, price) ==
    LET order == NewOrder(account, symbol, order_type, side, quantity, price)
    IN IF ~validate_order(order, positions[account])
       THEN [order |-> update_status(order, REJECTED), stored |-> FALSE,
             balance |-> balance[account], portfolio |-> positions[account]]
       ELSE LET done == process_order(order, balance[account],
                                      current_price[symbol])
            IN [order |-> done.order, stored |-> TRUE,
                balance |-> done.balance,
                portfolio |-> UpdatePortfolio(done, positions[account],
                                              current_price[symbol])]

\* BrokerageSystem.place_order: "Decimal(str(price)) if price else None".
price_decimal(price) == IF price = None \/ price = <<0>> THEN None ELSE price

\* -------------------------------------------------------------- the calls
\* BrokerageSystem.place_order for a registered account and a listed symbol.
place_order(account_id, symbol, order_type, side, quantity, price) ==
    /\ Len(order_objects) < MaxOrders
    /\ LET r == OrderService_place_order(account_id, symbol, order_type,
                    side, quantity, price_decimal(price))
       IN /\ order_objects' = Append(order_objects, r.order)
          /\ orders' = IF r.stored
                       THEN orders \cup {Len(order_objects) + 1}
                       ELSE orders
          /\ balance' = [balance EXCEPT ![account_id] = r.balance]
          /\ positions' = [positions EXCEPT ![account_id] = r.portfolio]
    /\ last' = Call("place_order", Len(order_objects) + 1, TRUE)
    /\ UNCHANGED <<current_price, transactions, threads, applied>>

\* BrokerageSystem.place_order naming an account that is not in self.accounts,
\* or a symbol that MarketDataService.get_stock does not know: both return
\* None before an Order is constructed.
place_order_none(account_id, symbol) ==
    /\ account_id = UnknownAccount \/ symbol = UnknownSymbol
    /\ last' = Call("place_order", 0, FALSE)
    /\ UNCHANGED <<current_price, balance, positions, order_objects, orders,
                   transactions, threads, applied>>

\* Mutant: cancel_order does not look at the order's status.
cancel_guard_any_status(order_id) == order_id \in orders

\* Mutant: cancel_order refuses only the orders that were filled.
cancel_guard_not_filled(order_id) ==
    order_id \in orders /\ order_objects[order_id].status # FILLED

\* Mutant: cancel_order compares the status with the wrong member of the enum.
cancel_guard_partially_filled(order_id) ==
    order_id \in orders /\ order_objects[order_id].status = PARTIALLY_FILLED

cancel_guard(order_id) ==
    order_id \in orders /\ order_objects[order_id].status = PENDING

cancel_order(order_id) ==
    /\ last' = Call("cancel_order", order_id, cancel_guard(order_id))
    /\ order_objects' =
         IF cancel_guard(order_id)
         THEN [order_objects EXCEPT
                  ![order_id] = update_status(order_objects[order_id], CANCELLED)]
         ELSE order_objects
    /\ UNCHANGED <<current_price, balance, positions, orders, transactions,
                   threads, applied>>

\* MarketDataService.update_stock_price returns nothing, known symbol or not.
update_stock_price(symbol, new_price) ==
    /\ last' = Call("update_stock_price", 0, TRUE)
    /\ current_price' = IF symbol \in Symbols
                        THEN [current_price EXCEPT ![symbol] = new_price]
                        ELSE current_price
    /\ UNCHANGED <<balance, positions, order_objects, orders, transactions,
                   threads, applied>>

\* Mutant: deposit_funds does not look the account up.
deposit_ok_any_account(account_id, amount) == Account_deposit_ok(amount)

deposit_ok(account_id, amount) ==
    account_id \in AccountIds /\ Account_deposit_ok(amount)

deposit_funds(account_id, amount) ==
    /\ deposit_ok(account_id, amount) => Len(transactions) < MaxTransactions
    /\ last' = Call("deposit_funds", 0, deposit_ok(account_id, amount))
    /\ IF deposit_ok(account_id, amount)
       THEN /\ balance' = [balance EXCEPT
                             ![account_id] = Account_deposit(@, amount)]
            /\ transactions' = Append(transactions,
                 [account |-> account_id, transaction_type |-> "DEPOSIT",
                  amount |-> amount])
       ELSE UNCHANGED <<balance, transactions>>
    /\ UNCHANGED <<current_price, positions, order_objects, orders,
                   threads, applied>>

\* Account.withdraw called on the Account object create_account returned.
withdraw(account_id, amount) ==
    /\ last' = Call("withdraw", 0,
                    Account_withdraw_ok(balance[account_id], amount))
    /\ balance' = [balance EXCEPT ![account_id] = Account_withdraw(@, amount)]
    /\ UNCHANGED <<current_price, positions, order_objects, orders,
                   transactions, threads, applied>>

\* OrderService.get_order: self.orders.get(order_id), None for an id that
\* was never stored.
get_order(order_id) ==
    IF order_id \in orders THEN <<order_objects[order_id]>> ELSE None

\* BrokerageSystem.get_portfolio: None for an account that is not registered.
get_portfolio(account_id) ==
    IF account_id \in AccountIds THEN <<positions[account_id]>> ELSE None

Next ==
    \/ \E a \in AccountIds, s \in Symbols, t \in OrderTypes,
          d \in OrderSides, q \in Quantities, p \in LimitPrices :
          place_order(a, s, t, d, q, IF t = "MARKET" THEN None ELSE p)
    \/ \E a \in AccountIds \cup {UnknownAccount},
          s \in Symbols \cup {UnknownSymbol} : place_order_none(a, s)
    \/ \E i \in 0 .. MaxOrders : cancel_order(i)
    \/ \E s \in Symbols \cup {UnknownSymbol}, p \in Prices :
          update_stock_price(s, p)
    \/ \E a \in AccountIds \cup {UnknownAccount}, m \in Amounts :
          deposit_funds(a, m)
    \/ \E a \in AccountIds, m \in Amounts : withdraw(a, m)

Spec == Init /\ [][Next]_vars

\* The same calls when every price the system is given is positive: stocks
\* listed at a positive price, positive price updates, orders of a positive
\* quantity and LIMIT orders with a positive limit price.
PositivePrices == {1, 3}
PositiveQuantities == {1, 2}
PositiveLimitPrices == {<<1>>, <<3>>}
PositiveAmounts == {1}

PositiveInit ==
    /\ Init
    /\ \A s \in Symbols : current_price[s] > 0

PositiveNext ==
    \/ \E a \in AccountIds, s \in Symbols, t \in OrderTypes,
          d \in OrderSides, q \in PositiveQuantities,
          p \in PositiveLimitPrices :
          place_order(a, s, t, d, q, IF t = "MARKET" THEN None ELSE p)
    \/ \E i \in 1 .. MaxOrders : cancel_order(i)
    \/ \E s \in Symbols, p \in PositivePrices : update_stock_price(s, p)
    \/ \E a \in AccountIds, m \in PositiveAmounts : deposit_funds(a, m)

PositivePricesSpec == PositiveInit /\ [][PositiveNext]_vars

\* ------------------------------------------------- the calls, interleaved
\* The same calls made by concurrent callers. Each step is one method call on
\* a shared object (Account, Position, Order, the orders dict, Stock), in the
\* order the code makes them; threads[t] holds caller t's position in its
\* call and its local variables. applied[i] counts, for order i, the calls of
\* fill_order, of Account.withdraw/deposit and of update_position made for it.
NotApplied == [fills |-> 0, cash |-> 0, shares |-> 0]

At(t, pc) == threads[t].pc = pc
Goto(t, pc) == threads' = [threads EXCEPT ![t].pc = pc]
Return(t) == threads' = [threads EXCEPT ![t] = Idle]
ThreadOrder(t) == order_objects[threads[t].order]

\* Mutant: the Order registers itself in OrderService.orders when constructed.
orders_after_construction_stored(order_id) == orders \cup {order_id}

\* OrderService.orders once place_order has constructed the Order: the
\* constructor stores nothing, the order is local to the call until line 250.
orders_after_construction(order_id) == orders

\* place_order up to the construction of the Order (lines 230-234, 346).
place_order_begin(t, account_id, symbol, order_type, side, quantity, price) ==
    /\ At(t, "idle")
    /\ order_objects' = Append(order_objects,
          NewOrder(account_id, symbol, order_type, side, quantity,
                   price_decimal(price)))
    /\ applied' = Append(applied, NotApplied)
    /\ orders' = orders_after_construction(Len(order_objects) + 1)
    /\ threads' = [threads EXCEPT ![t] =
          [pc |-> "validate", order |-> Len(order_objects) + 1,
           current_price |-> 0]]
    /\ UNCHANGED <<current_price, balance, positions, transactions, last>>

\* Lines 236-239: _validate_order; a failure sets REJECTED and returns.
place_order_validate(t) ==
    /\ At(t, "validate")
    /\ LET o == ThreadOrder(t)
       IN IF validate_order(o, positions[o.account])
          THEN /\ Goto(t, "process")
               /\ UNCHANGED order_objects
          ELSE /\ order_objects' = [order_objects EXCEPT
                     ![threads[t].order] = update_status(o, REJECTED)]
               /\ Return(t)
    /\ UNCHANGED <<current_price, balance, positions, orders, transactions,
                   last, applied>>

\* The processor reads order.stock.current_price and chooses its branch
\* (lines 162-168 and 181-192).
process_order_begin(t) ==
    /\ At(t, "process")
    /\ LET o == ThreadOrder(t)
           price == current_price[o.symbol]
           branch ==
              IF o.order_type = "MARKET"
              THEN IF o.side = "BUY" THEN "has_sufficient_balance"
                                     ELSE "update_portfolio"
              ELSE IF o.price = None THEN "store"
              ELSE IF o.side = "BUY" /\ price <= o.price[1]
              THEN "has_sufficient_balance"
              ELSE IF o.side = "SELL" /\ price >= o.price[1]
              THEN "fill_order"
              ELSE "store"
       IN threads' = [threads EXCEPT ![t].pc = branch,
                                     ![t].current_price = price]
    /\ UNCHANGED <<current_price, balance, positions, order_objects, orders,
                   transactions, last, applied>>

\* total_cost of a BUY: price * quantity with the price the processor read
\* (MARKET), order.price * quantity (LIMIT).
total_cost(t) ==
    LET o == ThreadOrder(t)
    IN IF o.order_type = "MARKET"
       THEN threads[t].current_price * o.quantity
       ELSE o.price[1] * o.quantity

\* Lines 169 and 188: order.account.has_sufficient_balance(total_cost).
process_order_has_sufficient_balance(t) ==
    /\ At(t, "has_sufficient_balance")
    /\ IF has_sufficient_balance(balance[ThreadOrder(t).account],
                                 total_cost(t))
       THEN Goto(t, "withdraw")
       ELSE Goto(t, "store")
    /\ UNCHANGED <<current_price, balance, positions, order_objects, orders,
                   transactions, last, applied>>

\* Lines 170 and 189: order.account.withdraw(total_cost).
process_order_withdraw(t) ==
    /\ At(t, "withdraw")
    /\ balance' = [balance EXCEPT ![ThreadOrder(t).account] =
                      Account_withdraw(@, total_cost(t))]
    /\ applied' = [applied EXCEPT ![threads[t].order].cash = @ + 1]
    /\ Goto(t, "fill_order")
    /\ UNCHANGED <<current_price, positions, order_objects, orders,
                   transactions, last>>

\* Lines 171, 190 and 193: order.fill_order(order.quantity).
process_order_fill_order(t) ==
    /\ At(t, "fill_order")
    /\ LET o == ThreadOrder(t)
       IN /\ order_objects' = [order_objects EXCEPT
                ![threads[t].order] = fill_order(o, o.quantity)]
          /\ Goto(t, IF o.side = "SELL" THEN "deposit"
                                       ELSE "update_portfolio")
    /\ applied' = [applied EXCEPT ![threads[t].order].fills = @ + 1]
    /\ UNCHANGED <<current_price, balance, positions, orders, transactions,
                   last>>

\* Line 194: order.account.deposit(order.price * order.quantity).
process_order_deposit(t) ==
    /\ At(t, "deposit")
    /\ LET o == ThreadOrder(t)
       IN balance' = [balance EXCEPT ![o.account] =
                         Account_deposit(@, o.price[1] * o.quantity)]
    /\ applied' = [applied EXCEPT ![threads[t].order].cash = @ + 1]
    /\ Goto(t, "update_portfolio")
    /\ UNCHANGED <<current_price, positions, order_objects, orders,
                   transactions, last>>

\* Lines 245-248, reached when the processor returned True: the position is
\* updated if the order is FILLED, at the limit price or at the price the
\* stock has now.
place_order_update_portfolio(t) ==
    /\ At(t, "update_portfolio")
    /\ LET o == ThreadOrder(t)
       IN /\ positions' = [positions EXCEPT ![o.account] =
                UpdatePortfolio(Outcome(TRUE, o, balance[o.account]), @,
                                current_price[o.symbol])]
          /\ applied' = IF o.status = FILLED
                        THEN [applied EXCEPT ![threads[t].order].shares = @ + 1]
                        ELSE applied
    /\ Goto(t, "store")
    /\ UNCHANGED <<current_price, balance, order_objects, orders,
                   transactions, last>>

\* Lines 250-251: self.orders[order.order_id] = order; return order.
place_order_store(t) ==
    /\ At(t, "store")
    /\ orders' = orders \cup {threads[t].order}
    /\ Return(t)
    /\ UNCHANGED <<current_price, balance, positions, order_objects,
                   transactions, last, applied>>

\* Lines 268-269 of cancel_order, when the order is found and is PENDING; in
\* the other case the call returns False and nothing changes.
cancel_order_check(t, order_id) ==
    /\ At(t, "idle")
    /\ cancel_guard(order_id)
    /\ threads' = [threads EXCEPT ![t] =
          [pc |-> "update_status", order |-> order_id, current_price |-> 0]]
    /\ UNCHANGED <<current_price, balance, positions, order_objects, orders,
                   transactions, last, applied>>

\* Lines 270-271: order.update_status(CANCELLED); return True.
cancel_order_update_status(t) ==
    /\ At(t, "update_status")
    /\ order_objects' = [order_objects EXCEPT
          ![threads[t].order] = update_status(ThreadOrder(t), CANCELLED)]
    /\ Return(t)
    /\ UNCHANGED <<current_price, balance, positions, orders, transactions,
                   last, applied>>

\* MarketDataService.update_stock_price by any caller: one assignment.
update_stock_price_concurrent(symbol, new_price) ==
    /\ current_price' = [current_price EXCEPT ![symbol] = new_price]
    /\ UNCHANGED <<balance, positions, order_objects, orders, transactions,
                   last, threads, applied>>

ConcurrentNext ==
    \/ /\ Len(order_objects) < MaxOrders
       /\ \E t \in Threads, a \in AccountIds, s \in Symbols,
             o \in OrderTypes, d \in OrderSides, q \in Quantities,
             p \in LimitPrices :
             place_order_begin(t, a, s, o, d, q,
                               IF o = "MARKET" THEN None ELSE p)
    \/ \E t \in Threads : place_order_validate(t)
    \/ \E t \in Threads : process_order_begin(t)
    \/ \E t \in Threads : process_order_has_sufficient_balance(t)
    \/ \E t \in Threads : process_order_withdraw(t)
    \/ \E t \in Threads : process_order_fill_order(t)
    \/ \E t \in Threads : process_order_deposit(t)
    \/ \E t \in Threads : place_order_update_portfolio(t)
    \/ \E t \in Threads : place_order_store(t)
    \/ \E t \in Threads, i \in 1 .. MaxOrders : cancel_order_check(t, i)
    \/ \E t \in Threads : cancel_order_update_status(t)
    \/ \E s \in Symbols, p \in Prices : update_stock_price_concurrent(s, p)

ConcurrentSpec == Init /\ [][ConcurrentNext]_vars

\* The same callers placing up to MaxRacingOrders orders of one share, LIMIT
\* orders at the limit price 1, with no cancellation and no price update in
\* between: enough for one BUY followed by two SELLs of the share bought.
MaxRacingOrders == 3
UnitQuantities == {1}
UnitLimitPrices == {<<1>>}

RacingNext ==
    \/ /\ Len(order_objects) < MaxRacingOrders
       /\ \E t \in Threads, a \in AccountIds, s \in Symbols,
             o \in OrderTypes, d \in OrderSides, q \in UnitQuantities,
             p \in UnitLimitPrices :
             place_order_begin(t, a, s, o, d, q,
                               IF o = "MARKET" THEN None ELSE p)
    \/ \E t \in Threads : place_order_validate(t)
    \/ \E t \in Threads : process_order_begin(t)
    \/ \E t \in Threads : process_order_has_sufficient_balance(t)
    \/ \E t \in Threads : process_order_withdraw(t)
    \/ \E t \in Threads : process_order_fill_order(t)
    \/ \E t \in Threads : process_order_deposit(t)
    \/ \E t \in Threads : place_order_update_portfolio(t)
    \/ \E t \in Threads : place_order_store(t)

RacingSpec == Init /\ [][RacingNext]_vars

\* ================================================================= claims
OrderIds == DOMAIN order_objects
Terminal(status) == status \in {FILLED, CANCELLED, REJECTED}
\* Shares of a symbol in a portfolio (0 without a position).
Held(portfolio, symbol) ==
    IF symbol \in DOMAIN portfolio THEN portfolio[symbol].quantity ELSE 0
\* The latest call was a place_order that returned an Order.
Placed == last.op = "place_order" /\ last.order # 0
PlacedOrder == order_objects[last.order]

\* C1: every account that starts with a balance >= 0 has a balance >= 0 in
\* every state reachable by deposits, withdrawals, orders, cancels and price
\* updates.
C1_BalanceNonNegative == \A a \in AccountIds : balance[a] >= 0

\* C1 witness: an order has just taken an account's whole balance.
C1_Witness ==
    /\ Placed
    /\ PlacedOrder.side = "BUY" /\ PlacedOrder.status = FILLED
    /\ last.balance[PlacedOrder.account] > 0
    /\ balance[PlacedOrder.account] = 0

\* C2: every position has quantity >= 0, and avg_price = 0 when its quantity
\* is 0.
C2_PositionInvariant ==
    \A a \in AccountIds : \A s \in DOMAIN positions[a] :
        /\ positions[a][s].quantity >= 0
        /\ positions[a][s].quantity = 0 => positions[a][s].avg_price = 0

\* C2 witness: a SELL has just emptied a position that had a cost basis.
C2_Witness ==
    /\ Placed
    /\ PlacedOrder.side = "SELL" /\ PlacedOrder.status = FILLED
    /\ last.positions[PlacedOrder.account][PlacedOrder.symbol].avg_price # 0
    /\ positions[PlacedOrder.account][PlacedOrder.symbol].quantity = 0

\* C3 as stated: every order constructed by place_order, the REJECTED ones
\* included, has 0 <= filled_quantity <= quantity.
C3_FilledWithinQuantity ==
    \A i \in OrderIds :
        /\ 0 <= order_objects[i].filled_quantity
        /\ order_objects[i].filled_quantity <= order_objects[i].quantity

\* C3 amended: every order has filled_quantity >= 0, and filled_quantity <=
\* quantity unless it was submitted with a negative quantity (such an order
\* is REJECTED with filled_quantity 0).
C3_FilledWithinQuantityAmended ==
    \A i \in OrderIds :
        /\ 0 <= order_objects[i].filled_quantity
        /\ order_objects[i].quantity >= 0
              => order_objects[i].filled_quantity <= order_objects[i].quantity
        /\ order_objects[i].quantity < 0
              => /\ order_objects[i].status = REJECTED
                 /\ order_objects[i].filled_quantity = 0

\* C3 witness: an order filled up to its quantity beside one rejected for its
\* negative quantity.
C3_Witness ==
    /\ \E i \in OrderIds : /\ order_objects[i].quantity > 0
                           /\ order_objects[i].filled_quantity
                                 = order_objects[i].quantity
    /\ \E i \in OrderIds : order_objects[i].quantity < 0

\* The status of an order agrees with its filled_quantity.
StatusConsistent(o) ==
    /\ o.status = FILLED <=> o.filled_quantity = o.quantity
    /\ o.status = PARTIALLY_FILLED
          <=> (0 < o.filled_quantity /\ o.filled_quantity < o.quantity)
    /\ o.filled_quantity = 0 => o.status \in {PENDING, CANCELLED, REJECTED}

\* C4 as stated: an order is FILLED exactly when filled_quantity = quantity,
\* PARTIALLY_FILLED exactly when 0 < filled_quantity < quantity, and PENDING,
\* CANCELLED or REJECTED when filled_quantity = 0.
C4_StatusConsistent == \A i \in OrderIds : StatusConsistent(order_objects[i])

\* C4 amended: the same, for every order whose quantity is not 0; an order
\* submitted with quantity 0 is REJECTED with filled_quantity = quantity = 0.
C4_StatusConsistentAmended ==
    \A i \in OrderIds :
        IF order_objects[i].quantity # 0
        THEN StatusConsistent(order_objects[i])
        ELSE /\ order_objects[i].status = REJECTED
             /\ order_objects[i].filled_quantity = 0

\* C4 witness: a FILLED order, a PENDING order.
C4_Witness ==
    /\ \E i \in OrderIds : order_objects[i].status = FILLED
    /\ \E i \in OrderIds : order_objects[i].status = PENDING

\* C5: once an order is FILLED, CANCELLED or REJECTED, no step changes its
\* status or its filled_quantity.
C5_TerminalIsFinal ==
    [][\A i \in OrderIds :
          Terminal(order_objects[i].status)
             => /\ order_objects'[i].status = order_objects[i].status
                /\ order_objects'[i].filled_quantity
                      = order_objects[i].filled_quantity]_vars

\* C5 witness: a cancel_order has just failed while the only stored orders
\* are terminal, one FILLED at submission and one CANCELLED.
C5_Witness ==
    /\ last.op = "cancel_order" /\ ~last.ok
    /\ orders = {1, 2}
    /\ order_objects[1].status = FILLED
    /\ order_objects[2].status = CANCELLED

\* C6: a MARKET BUY of q > 0 shares at current price p by an account with
\* balance >= q * p is returned FILLED with filled_quantity = q, lowers the
\* balance by exactly q * p and raises the position by q; a new position gets
\* avg_price = p.
C6_MarketBuyFills ==
    (/\ Placed
     /\ PlacedOrder.order_type = "MARKET" /\ PlacedOrder.side = "BUY"
     /\ PlacedOrder.quantity > 0
     /\ last.balance[PlacedOrder.account]
           >= PlacedOrder.quantity * current_price[PlacedOrder.symbol])
    => LET o == PlacedOrder
           a == o.account
           p == current_price[o.symbol]
       IN /\ o.status = FILLED
          /\ o.filled_quantity = o.quantity
          /\ balance[a] = last.balance[a] - o.quantity * p
          /\ Held(positions[a], o.symbol)
                = Held(last.positions[a], o.symbol) + o.quantity
          /\ o.symbol \notin DOMAIN last.positions[a]
                => positions[a][o.symbol].avg_price = Dec(p)

\* C7: a MARKET BUY whose cost quantity * current_price exceeds the balance
\* is returned REJECTED, and the balance and the positions are unchanged.
C7_UnaffordableMarketBuyRejected ==
    (/\ Placed
     /\ PlacedOrder.order_type = "MARKET" /\ PlacedOrder.side = "BUY"
     /\ PlacedOrder.quantity * current_price[PlacedOrder.symbol]
           > last.balance[PlacedOrder.account])
    => /\ PlacedOrder.status = REJECTED
       /\ balance = last.balance
       /\ positions = last.positions

\* C8: a SELL, market or limit, of more shares than the account holds in the
\* symbol (no position included) is returned REJECTED, creates no position
\* and leaves the balance and every position unchanged.
C8_OversizedSellRejected ==
    (/\ Placed
     /\ PlacedOrder.side = "SELL"
     /\ PlacedOrder.quantity
           > Held(last.positions[PlacedOrder.account], PlacedOrder.symbol))
    => /\ PlacedOrder.status = REJECTED
       /\ balance = last.balance
       /\ positions = last.positions

\* C8 witness: a SELL of more shares than a position of at least one share
\* holds has just been rejected.
C8_Witness ==
    /\ Placed
    /\ PlacedOrder.side = "SELL" /\ PlacedOrder.status = REJECTED
    /\ Held(last.positions[PlacedOrder.account], PlacedOrder.symbol) >= 1
    /\ PlacedOrder.quantity
          > Held(last.positions[PlacedOrder.account], PlacedOrder.symbol)

\* A stored limit order could execute at this price: both prices positive,
\* the price condition of its side, the cash of a BUY, and (more than the
\* claim asks) the shares of a SELL.
Eligible(o, price) ==
    /\ o.order_type = "LIMIT" /\ o.price # None
    /\ o.price[1] > 0 /\ price > 0
    /\ \/ /\ o.side = "SELL" /\ price >= o.price[1]
          /\ Held(positions[o.account], o.symbol) >= o.quantity
       \/ /\ o.side = "BUY" /\ price <= o.price[1]
          /\ balance[o.account] >= o.quantity * o.price[1]

\* C9: a limit order that rests as PENDING because it was not eligible is
\* FILLED by the price change that makes it eligible.
C9_RestingOrderFillsOnPriceChange ==
    [][\A i \in orders :
          (/\ order_objects[i].status = PENDING
           /\ ~Eligible(order_objects[i],
                        current_price[order_objects[i].symbol])
           /\ last'.op = "update_stock_price"
           /\ Eligible(order_objects[i],
                       current_price'[order_objects[i].symbol]))
          => /\ order_objects'[i].status = FILLED
             /\ order_objects'[i].filled_quantity
                   = order_objects[i].quantity]_vars

\* C10: a BUY of q shares filled at price p, followed at once by a SELL of
\* the same q shares of the same symbol filled at the same p, leaves the
\* balance at its value before the BUY, and a position that was empty before
\* the BUY at quantity 0 with avg_price 0.
C10_RoundTrip ==
    [][(/\ Placed
        /\ PlacedOrder.side = "BUY" /\ PlacedOrder.status = FILLED
        /\ last'.op = "place_order" /\ last'.order = last.order + 1
        /\ order_objects'[last'.order].side = "SELL"
        /\ order_objects'[last'.order].status = FILLED
        /\ order_objects'[last'.order].account = PlacedOrder.account
        /\ order_objects'[last'.order].symbol = PlacedOrder.symbol
        /\ order_objects'[last'.order].quantity = PlacedOrder.quantity
        /\ ExecutionPrice(order_objects'[last'.order],
                          current_price[PlacedOrder.symbol])
              = ExecutionPrice(PlacedOrder, current_price[PlacedOrder.symbol]))
       => LET a == PlacedOrder.account
              s == PlacedOrder.symbol
          IN /\ balance'[a] = last.balance[a]
             /\ Held(last.positions[a], s) = 0
                   => positions'[a][s] = [quantity |-> 0, avg_price |-> 0]]_vars

\* C10 witness: a limit BUY and a limit SELL of the same quantity at the same
\* positive price are both FILLED, the SELL by the latest call, which credited
\* its proceeds and emptied the position.
C10_Witness ==
    /\ Placed /\ last.order = 2
    /\ order_objects[1].side = "BUY" /\ order_objects[1].status = FILLED
    /\ order_objects[2].side = "SELL" /\ order_objects[2].status = FILLED
    /\ order_objects[1].order_type = "LIMIT"
    /\ order_objects[1].price = order_objects[2].price
    /\ order_objects[1].price[1] > 0
    /\ order_objects[1].quantity = order_objects[2].quantity
    /\ positions[order_objects[2].account][order_objects[2].symbol].quantity = 0
    /\ balance[order_objects[2].account]
          = last.balance[order_objects[2].account]
               + order_objects[2].quantity * order_objects[2].price[1]

\* C11: cancel_order on an order that is already CANCELLED or FILLED reports
\* failure and changes nothing: the status and filled quantity of every order,
\* every balance and every position are as before, at every repetition.
C11_CancelTerminalIsNoOp ==
    [][\A i \in orders :
          (/\ order_objects[i].status \in {CANCELLED, FILLED}
           /\ cancel_order(i))
          => (/\ ~last'.ok
              /\ order_objects' = order_objects
              /\ balance' = balance
              /\ positions' = positions)]_vars

\* A second cancel_order of a cancelled order has just failed.
C11_Witness ==
    /\ last.op = "cancel_order" /\ ~last.ok
    /\ last.order \in orders
    /\ order_objects[last.order].status = CANCELLED

\* C13: place_order with a quantity <= 0, for a registered account and a
\* listed symbol, returns the order with status REJECTED and leaves every
\* balance and every position as before, for every order type and side.
C13_NonPositiveQuantityRejected ==
    (Placed /\ PlacedOrder.quantity <= 0)
    => (/\ PlacedOrder.status = REJECTED
        /\ PlacedOrder.filled_quantity = 0
        /\ balance = last.balance
        /\ positions = last.positions)

\* A MARKET BUY of 0 shares by an account that holds cash came back REJECTED.
C13_Witness ==
    /\ Placed
    /\ PlacedOrder.quantity = 0
    /\ PlacedOrder.order_type = "MARKET" /\ PlacedOrder.side = "BUY"
    /\ last.balance[PlacedOrder.account] > 0
    /\ PlacedOrder.status = REJECTED

\* C14: place_order of a LIMIT order whose limit price is missing, zero or
\* negative returns the order with status REJECTED and leaves every balance,
\* every position and the order's filled_quantity as they were.
C14_BadLimitPriceRejected ==
    (/\ Placed
     /\ PlacedOrder.order_type = "LIMIT"
     /\ (PlacedOrder.price = None \/ PlacedOrder.price[1] <= 0))
    => (/\ PlacedOrder.status = REJECTED
        /\ PlacedOrder.filled_quantity = 0
        /\ balance = last.balance
        /\ positions = last.positions)

\* The part of C14 the code does implement: a missing limit price, which is
\* also what BrokerageSystem.place_order makes of a zero price.
C14_MissingLimitPriceRejected ==
    (/\ Placed
     /\ PlacedOrder.order_type = "LIMIT"
     /\ PlacedOrder.price = None)
    => (/\ PlacedOrder.status = REJECTED
        /\ PlacedOrder.filled_quantity = 0
        /\ balance = last.balance
        /\ positions = last.positions)

\* C15: place_order for a symbol MarketDataService does not know yields an
\* order with status REJECTED that the order service has recorded.
C15_UnknownSymbolRejectedAndRecorded ==
    [][(\E a \in AccountIds : place_order_none(a, UnknownSymbol))
       => (/\ last'.order \in DOMAIN order_objects'
           /\ order_objects'[last'.order].status = REJECTED
           /\ last'.order \in orders')]_vars

\* C16: every order place_order has returned, whatever its status (REJECTED
\* included), is recorded by the order service and retrievable by get_order
\* in every later state.
C16_EveryReturnedOrderRecorded ==
    \A i \in OrderIds : i \in orders

\* The part of C16 the code does implement: no operation removes an order
\* from OrderService.orders.
C16_NoOrderRemoved ==
    [][orders \subseteq orders']_vars

\* C17: a MARKET SELL of q shares by an account that holds at least q shares
\* of the symbol executes in full at the current price: the order is FILLED
\* with filled_quantity = q, the position falls by q and the balance rises by
\* q times the current price.
C17_MarketSellFills ==
    (/\ Placed
     /\ PlacedOrder.order_type = "MARKET" /\ PlacedOrder.side = "SELL"
     /\ PlacedOrder.quantity > 0
     /\ Held(last.positions[PlacedOrder.account], PlacedOrder.symbol)
           >= PlacedOrder.quantity)
    => (/\ PlacedOrder.status = FILLED
        /\ PlacedOrder.filled_quantity = PlacedOrder.quantity
        /\ Held(positions[PlacedOrder.account], PlacedOrder.symbol)
              = Held(last.positions[PlacedOrder.account], PlacedOrder.symbol)
                - PlacedOrder.quantity
        /\ balance[PlacedOrder.account]
              = last.balance[PlacedOrder.account]
                + PlacedOrder.quantity * current_price[PlacedOrder.symbol])

\* The LIMIT order place_order has just returned passed validation with a
\* positive limit price: quantity > 0, and for a SELL the shares were held.
PlacedValidLimit ==
    /\ Placed
    /\ PlacedOrder.order_type = "LIMIT"
    /\ PlacedOrder.quantity > 0
    /\ PlacedOrder.price # None
    /\ PlacedOrder.price[1] > 0
    /\ PlacedOrder.side = "SELL"
         => Held(last.positions[PlacedOrder.account], PlacedOrder.symbol)
               >= PlacedOrder.quantity

\* Eligibility of that order at submission: the price and the balance the
\* call found.
EligibleAtSubmission ==
    LET o == PlacedOrder
        limit == o.price[1]
    IN IF o.side = "BUY"
       THEN /\ current_price[o.symbol] <= limit
            /\ last.balance[o.account] >= o.quantity * limit
       ELSE current_price[o.symbol] >= limit

\* C18: a valid LIMIT order executes at submission exactly when it is
\* eligible (BUY: current price <= limit and balance >= quantity * limit;
\* SELL: current price >= limit); when it executes, the cash moved is
\* quantity * limit and the price applied to the position is the limit price,
\* never the current price.
C18_LimitExecutesAtLimit ==
    PlacedValidLimit
    => LET o == PlacedOrder
           limit == o.price[1]
           before == last.positions[o.account]
       IN /\ (o.status = FILLED) <=> EligibleAtSubmission
          /\ o.status = FILLED
               => /\ o.filled_quantity = o.quantity
                  /\ balance[o.account] =
                       IF o.side = "BUY"
                       THEN last.balance[o.account] - o.quantity * limit
                       ELSE last.balance[o.account] + o.quantity * limit
                  /\ positions[o.account] =
                       Portfolio_add_position(before, o.symbol,
                          IF o.side = "BUY" THEN o.quantity
                                            ELSE 0 - o.quantity,
                          limit)

\* A LIMIT BUY filled while the current price was below its limit: the cash
\* that left the account is quantity * limit.
C18_Witness ==
    /\ PlacedValidLimit
    /\ PlacedOrder.side = "BUY"
    /\ PlacedOrder.status = FILLED
    /\ current_price[PlacedOrder.symbol] > 0
    /\ current_price[PlacedOrder.symbol] < PlacedOrder.price[1]
    /\ balance[PlacedOrder.account]
         = last.balance[PlacedOrder.account]
           - PlacedOrder.quantity * PlacedOrder.price[1]

\* C19: cancel_order on a resting (PENDING) order reports success, sets the
\* status to CANCELLED and leaves every balance and every position unchanged;
\* and no later operation fills or otherwise changes a cancelled order.
C19_CancelPending ==
    [][/\ \A i \in orders :
             (order_objects[i].status = PENDING /\ cancel_order(i))
             => (/\ last'.ok
                 /\ order_objects'[i].status = CANCELLED
                 /\ order_objects'[i].filled_quantity
                       = order_objects[i].filled_quantity
                 /\ balance' = balance
                 /\ positions' = positions)
       /\ \A i \in orders :
             order_objects[i].status = CANCELLED
             => order_objects'[i] = order_objects[i]]_vars

\* A LIMIT BUY was cancelled while resting; a later price update made it
\* eligible (price <= limit, cash available) and it is still CANCELLED and
\* unfilled.
C19_Witness ==
    /\ last.op = "update_stock_price"
    /\ \E i \in orders :
          LET o == order_objects[i]
          IN /\ o.status = CANCELLED
             /\ o.filled_quantity = 0
             /\ o.order_type = "LIMIT" /\ o.side = "BUY"
             /\ o.price # None
             /\ o.price[1] > 0
             /\ current_price[o.symbol] > 0
             /\ current_price[o.symbol] <= o.price[1]
             /\ balance[o.account] >= o.quantity * o.price[1]

\* C12: under any interleaving of price updates and order admissions for the
\* same symbol, an order is filled at most once: its filled_quantity never
\* exceeds its quantity, and fill_order, the cash movement and the share
\* movement are each applied to it at most once.
C12_FilledAtMostOnce ==
    \A i \in OrderIds :
       /\ order_objects[i].quantity >= 0
            => order_objects[i].filled_quantity <= order_objects[i].quantity
       /\ applied[i].fills <= 1
       /\ applied[i].cash <= 1
       /\ applied[i].shares <= 1

\* A LIMIT order rests in the order service while another caller's order for
\* the same symbol has been filled in a call that a price update overtook:
\* the price the processor read is no longer the stock's price.
C12_Witness ==
    \E t \in Threads :
       /\ At(t, "update_portfolio")
       /\ ThreadOrder(t).status = FILLED
       /\ applied[threads[t].order].fills = 1
       /\ threads[t].current_price # current_price[ThreadOrder(t).symbol]
       /\ \E i \in orders :
             /\ order_objects[i].status = PENDING
             /\ order_objects[i].order_type = "LIMIT"
             /\ order_objects[i].symbol = ThreadOrder(t).symbol

\* C20: under any interleaving of cancel_order with the calls that fill
\* orders, a FILLED order is never turned into CANCELLED, and no order is
\* ever CANCELLED with filled_quantity = quantity or with cash or shares
\* already moved for it.
C20_CancelNeverOvertakesFill ==
    [][/\ \A i \in DOMAIN order_objects :
             order_objects[i].status = FILLED
             => order_objects'[i].status = FILLED
       /\ \A i \in DOMAIN order_objects' :
             order_objects'[i].status = CANCELLED
             => (/\ order_objects'[i].filled_quantity
                       # order_objects'[i].quantity
                 /\ applied'[i] = NotApplied)]_vars

\* A cancel_order has passed its status check and not yet written CANCELLED
\* while another caller's place_order has just filled its order.
C20_Witness ==
    \E t, u \in Threads :
       /\ At(t, "update_status")
       /\ ThreadOrder(t).status = PENDING
       /\ At(u, "update_portfolio")
       /\ ThreadOrder(u).status = FILLED

\* C21: a call that names an unknown account (place_order, deposit_funds,
\* get_portfolio) or an unknown order id (cancel_order, get_order) fails, and
\* changes nothing: no order is created, and every balance, every position
\* and the transaction log are as before.
C21_UnknownAccountOrOrderFails ==
    [][/\ ((\/ \E s \in Symbols \cup {UnknownSymbol} :
                  place_order_none(UnknownAccount, s)
            \/ \E m \in Amounts : deposit_funds(UnknownAccount, m)
            \/ \E i \in 0 .. MaxOrders : i \notin orders /\ cancel_order(i))
           => (/\ ~last'.ok
               /\ order_objects' = order_objects
               /\ orders' = orders
               /\ balance' = balance
               /\ positions' = positions
               /\ transactions' = transactions))
       /\ get_portfolio(UnknownAccount) = None
       /\ \A i \in 0 .. MaxOrders : i \notin orders => get_order(i) = None]_vars

\* cancel_order has just failed on the id of an order that was returned
\* REJECTED and therefore never stored.
C21_Witness ==
    /\ last.op = "cancel_order" /\ ~last.ok
    /\ last.order \in OrderIds
    /\ last.order \notin orders

\* The order a place_order step has just constructed is FILLED.
FillCommitted ==
    /\ Len(order_objects') > Len(order_objects)
    /\ order_objects'[Len(order_objects')].status = FILLED

\* C22: the transaction log receives exactly one Transaction per committed
\* fill (of type BUY or SELL, the order's side) and exactly one per
\* successful deposit or withdrawal, and none for an operation that fails.
C22_OneTransactionPerFillAndTransfer ==
    [][IF FillCommitted
       THEN /\ Len(transactions') = Len(transactions) + 1
            /\ transactions'[Len(transactions')].transaction_type
                  = order_objects'[Len(order_objects')].side
       ELSE IF last'.op \in {"deposit_funds", "withdraw"} /\ last'.ok
       THEN Len(transactions') = Len(transactions) + 1
       ELSE transactions' = transactions]_vars

\* The part of C22 the code does implement: a successful deposit_funds
\* appends one DEPOSIT Transaction, a failing one appends nothing.
C22_DepositRecorded ==
    [][last'.op = "deposit_funds"
       => IF last'.ok
          THEN /\ Len(transactions') = Len(transactions) + 1
               /\ transactions'[Len(transactions')].transaction_type
                     = "DEPOSIT"
          ELSE transactions' = transactions]_vars

\* C23: a LIMIT BUY (quantity > 0, limit price > 0) submitted when the
\* account balance is less than quantity * limit price is returned REJECTED,
\* not PENDING, whether or not the price condition is met at submission.
C23_UnaffordableLimitBuyRejected ==
    (/\ Placed
     /\ PlacedOrder.order_type = "LIMIT" /\ PlacedOrder.side = "BUY"
     /\ PlacedOrder.quantity > 0
     /\ PlacedOrder.price # None
     /\ PlacedOrder.price[1] > 0
     /\ last.balance[PlacedOrder.account]
           < PlacedOrder.quantity * PlacedOrder.price[1])
    => PlacedOrder.status = REJECTED

\* What C24 asks of the order place_order has just returned: unfilled and
\* nothing moved, or filled in full with the cash and the shares moved.
AllOrNothing ==
    LET o == PlacedOrder
        cost == o.quantity * ExecutionPrice(o, current_price[o.symbol])
        held == Held(positions[o.account], o.symbol)
        held_before == Held(last.positions[o.account], o.symbol)
    IN IF o.status = FILLED
       THEN /\ o.filled_quantity = o.quantity
            /\ balance[o.account] =
                  IF o.side = "BUY" THEN last.balance[o.account] - cost
                                    ELSE last.balance[o.account] + cost
            /\ held = IF o.side = "BUY" THEN held_before + o.quantity
                                        ELSE held_before - o.quantity
       ELSE /\ o.filled_quantity = 0
            /\ balance = last.balance
            /\ positions = last.positions

\* C24: whenever place_order does not fill the order, the balance, every
\* position and the order's filled_quantity are as before the call; whenever
\* it fills, the cash movement, the position movement and the order's fill
\* are all applied, never only some of them.
C24_AllOrNothing ==
    Placed => AllOrNothing

\* C24 restricted to a positive current price and a positive limit price.
C24_AllOrNothingAtPositivePrices ==
    (/\ Placed
     /\ current_price[PlacedOrder.symbol] > 0
     /\ PlacedOrder.price # None => PlacedOrder.price[1] > 0)
    => AllOrNothing

\* C25: under any interleaving of concurrent BUY place_order calls on the
\* same account, the balance check and the withdrawal of an order are
\* atomic: the withdrawal that follows a passed check takes the order's full
\* (positive) cost from the account, so that every FILLED BUY has been paid.
C25_CheckAndWithdrawAtomic ==
    [][\A t \in Threads :
          (/\ At(t, "withdraw")
           /\ total_cost(t) > 0
           /\ process_order_withdraw(t))
          => balance'[ThreadOrder(t).account]
                = balance[ThreadOrder(t).account] - total_cost(t)]_vars

\* C26: under any interleaving of concurrent SELL place_order calls on the
\* same account and symbol, the shares sold by the filled SELL orders never
\* exceed the shares held: no position quantity ever becomes negative.
C26_NoOversellUnderConcurrency ==
    \A a \in AccountIds :
       \A s \in DOMAIN positions[a] : positions[a][s].quantity >= 0

\* place_order has just returned a FILLED SELL of shares that were held.
PlacedSellFill ==
    /\ Placed
    /\ PlacedOrder.side = "SELL"
    /\ PlacedOrder.status = FILLED
    /\ PlacedOrder.symbol \in DOMAIN last.positions[PlacedOrder.account]

\* C27: a SELL fill that leaves the position with a positive quantity leaves
\* the position's avg_cost unchanged, whatever the sale price; a SELL fill
\* that brings the quantity to 0 resets avg_cost to 0.
C27_SellKeepsAvgCost ==
    PlacedSellFill
    => LET o == PlacedOrder
           before == last.positions[o.account][o.symbol]
           after == positions[o.account][o.symbol]
       IN /\ after.quantity > 0 => after.avg_price = before.avg_price
          /\ after.quantity = 0 => after.avg_price = 0

\* The part of C27 the code does implement: selling the whole position
\* resets avg_price to 0.
C27_SellingAllResetsAvgCost ==
    PlacedSellFill
    => (positions[PlacedOrder.account][PlacedOrder.symbol].quantity = 0
        => positions[PlacedOrder.account][PlacedOrder.symbol].avg_price = 0)

\* C29: the avg_cost of every position is >= 0 in every state reachable by
\* BUY and SELL fills at positive prices.
C29_AvgCostNonNegative ==
    \A a \in AccountIds :
       \A s \in DOMAIN positions[a] : positions[a][s].avg_price >= 0

\* C30: every stock's current_price is > 0 in every reachable state: no price
\* update sets the price of a stock to zero or to a negative value.
C30_PriceStaysPositive ==
    [][\A s \in Symbols :
          current_price[s] > 0 => current_price'[s] > 0]_vars

\* place_order has just returned a FILLED BUY.
PlacedBuyFill ==
    /\ Placed
    /\ PlacedOrder.side = "BUY"
    /\ PlacedOrder.status = FILLED

\* The cost of the position after that BUY, in units of the last decimal
\* place: old_qty * old_avg + q * p.
BuyTotalCost ==
    LET o == PlacedOrder
        before == last.positions[o.account]
        p == ExecutionPrice(o, current_price[o.symbol])
    IN (IF o.symbol \in DOMAIN before
        THEN before[o.symbol].quantity * before[o.symbol].avg_price
        ELSE 0)
       + o.quantity * Dec(p)

AbsoluteValue(n) == IF n < 0 THEN 0 - n ELSE n

\* C28 (as claimed): after a BUY fill of q shares at price p on a position
\* of old_qty shares at old_avg, the position holds old_qty + q shares and
\* avg_cost * (old_qty + q) = old_qty * old_avg + q * p exactly; a first BUY
\* creates the position with quantity q and avg_cost p.
C28_WeightedAverageExact ==
    PlacedBuyFill
    => LET o == PlacedOrder
           after == positions[o.account][o.symbol]
       IN /\ after.quantity
                = Held(last.positions[o.account], o.symbol) + o.quantity
          /\ after.avg_price * after.quantity = BuyTotalCost

\* C28 (amended): the quantity is old_qty + q, and avg_cost is the quotient
\* (old_qty * old_avg + q * p) / (old_qty + q) rounded to the precision of
\* the arithmetic: avg_cost * (old_qty + q) differs from the total by at most
\* half a unit of the last place per share held, and is equal to it for a
\* first BUY.
C28_WeightedAverageRounded ==
    PlacedBuyFill
    => LET o == PlacedOrder
           after == positions[o.account][o.symbol]
       IN /\ after.quantity
                = Held(last.positions[o.account], o.symbol) + o.quantity
          /\ 2 * AbsoluteValue(after.avg_price * after.quantity - BuyTotalCost)
                <= after.quantity
          /\ o.symbol \notin DOMAIN last.positions[o.account]
                => after.avg_price
                     = Dec(ExecutionPrice(o, current_price[o.symbol]))

\* A BUY at a positive price onto a position held at a positive average has
\* just produced an average that is not the exact quotient.
C28_Witness ==
    /\ PlacedBuyFill
    /\ PlacedOrder.symbol \in DOMAIN last.positions[PlacedOrder.account]
    /\ last.positions[PlacedOrder.account][PlacedOrder.symbol].quantity > 0
    /\ last.positions[PlacedOrder.account][PlacedOrder.symbol].avg_price > 0
    /\ ExecutionPrice(PlacedOrder, current_price[PlacedOrder.symbol]) > 0
    /\ positions[PlacedOrder.account][PlacedOrder.symbol].avg_price
         * positions[PlacedOrder.account][PlacedOrder.symbol].quantity
         # BuyTotalCost

\* C31: a deposit of a non-positive amount fails, a withdrawal of a
\* non-positive amount or of more than the balance fails, and both leave the
\* balance unchanged; a failed deposit_funds records no transaction.
C31_FailedTransferChangesNothing ==
    [][\A a \in AccountIds, m \in Amounts :
          /\ (m <= 0 /\ deposit_funds(a, m))
                => (/\ ~last'.ok
                    /\ balance' = balance
                    /\ transactions' = transactions)
          /\ ((m <= 0 \/ m > balance[a]) /\ withdraw(a, m))
                => (/\ ~last'.ok
                    /\ balance' = balance
                    /\ transactions' = transactions)]_vars

\* A deposit_funds on a registered account has just failed for an account
\* that holds cash, and the log is still empty.
C31_Witness ==
    /\ last.op = "deposit_funds" /\ ~last.ok
    /\ \E a \in AccountIds : balance[a] > 0
    /\ balance = last.balance
    /\ transactions = << >>

\* The shares the first n orders have moved for an account and a symbol: the
\* quantities of its FILLED BUY orders minus those of its FILLED SELL orders.
RECURSIVE FilledShares(_, _, _)
FilledShares(account, symbol, n) ==
    IF n = 0 THEN 0
    ELSE LET o == order_objects[n]
         IN FilledShares(account, symbol, n - 1)
            + (IF o.account = account /\ o.symbol = symbol
                  /\ o.status = FILLED
               THEN IF o.side = "BUY" THEN o.quantity ELSE 0 - o.quantity
               ELSE 0)

\* C32: in every reachable state, for every account and symbol, the position
\* quantity equals the sum of the quantities of the account's FILLED BUY
\* orders in the symbol minus the sum of those of its FILLED SELL orders.
C32_PositionIsSumOfFills ==
    \A a \in AccountIds, s \in Symbols :
       Held(positions[a], s) = FilledShares(a, s, Len(order_objects))

\* An account holds one share after a FILLED BUY of 2 and a FILLED SELL of 1.
C32_Witness ==
    \E a \in AccountIds, s \in Symbols :
       /\ Held(positions[a], s) = 1
       /\ \E i, j \in OrderIds :
             /\ order_objects[i].side = "BUY"
             /\ order_objects[i].status = FILLED
             /\ order_objects[i].quantity = 2
             /\ order_objects[j].side = "SELL"
             /\ order_objects[j].status = FILLED
             /\ order_objects[j].quantity = 1

\* The change of an account's balance that C33 allows in one step: the cost
\* of the fill the step committed for the account, the amount of its
\* successful deposit, a decrease for its successful withdrawal, and nothing
\* otherwise.
BalanceStepAccounted(a) ==
    LET o == order_objects'[Len(order_objects')]
        cost == o.quantity * ExecutionPrice(o, current_price[o.symbol])
    IN IF FillCommitted /\ o.account = a
       THEN balance'[a] = IF o.side = "BUY" THEN balance[a] - cost
                                            ELSE balance[a] + cost
       ELSE IF last'.op = "deposit_funds" /\ last'.ok
       THEN balance'[a] - balance[a]
               = IF transactions'[Len(transactions')].account = a
                 THEN transactions'[Len(transactions')].amount ELSE 0
       ELSE IF last'.op = "withdraw" /\ last'.ok
       THEN balance'[a] <= balance[a]
       ELSE balance'[a] = balance[a]

\* C33: each account's balance is its initial balance plus its successful
\* deposits, minus quantity * execution price of each of its FILLED BUY
\* orders, plus quantity * execution price of each of its FILLED SELL orders:
\* every step changes the cash by exactly the cost of the fill it commits or
\* the amount it deposits or withdraws.
C33_BalanceIsSumOfMovements ==
    [][\A a \in AccountIds : BalanceStepAccounted(a)]_vars

\* C34: every fill is for the whole order: filled_quantity only takes the
\* values 0 and quantity, and the status PARTIALLY_FILLED is unreachable
\* through place_order, cancel_order and price updates.
C34_WholeFillsOnly ==
    \A i \in OrderIds :
       /\ order_objects[i].filled_quantity \in {0, order_objects[i].quantity}
       /\ order_objects[i].status # PARTIALLY_FILLED

\* After a price update, one order of 2 shares is FILLED with 2 shares and
\* another order of 2 shares rests with none.
C34_Witness ==
    /\ last.op = "update_stock_price"
    /\ \E i, j \in OrderIds :
          /\ order_objects[i].quantity = 2
          /\ order_objects[i].status = FILLED
          /\ order_objects[i].filled_quantity = 2
          /\ order_objects[j].quantity = 2
          /\ order_objects[j].status = PENDING
          /\ order_objects[j].filled_quantity = 0

\* C35: for every FILLED MARKET BUY, the cash withdrawn equals quantity times
\* the price recorded as the fill's cost basis in the position, also when a
\* price update interleaves with the place_order call: the price the
\* processor read for the withdrawal is the price the position is booked at.
C35_PriceReadOnce ==
    [][\A t \in Threads :
          (/\ At(t, "update_portfolio")
           /\ ThreadOrder(t).order_type = "MARKET"
           /\ ThreadOrder(t).side = "BUY"
           /\ ThreadOrder(t).status = FILLED
           /\ threads[t].current_price > 0
           /\ current_price[ThreadOrder(t).symbol] > 0
           /\ place_order_update_portfolio(t))
          => ExecutionPrice(ThreadOrder(t),
                            current_price[ThreadOrder(t).symbol])
                = threads[t].current_price]_vars

============================================================================
